---- MODULE Spec2Model ----
(***************************************************************************)
(* Model of server.js: the in-memory session registry (a JS Map from       *)
(* sessionId to { client, clientId, createdAt }), the periodic expiry      *)
(* sweep, and the request handlers /api/config, /api/disconnect and        *)
(* /api/status, each cut at its await points.                              *)
(*                                                                         *)
(* Node runs one callback at a time and drains the microtask queue before  *)
(* the next callback, so every action below is one synchronous segment: an *)
(* event (request arrival, promise settlement, client event, timer) plus   *)
(* the handler code it resumes, up to the next await or the response.      *)
(*                                                                         *)
(* A request is identified by its arrival number r; the discord.js Client  *)
(* constructed by request r is identified by the same number r.            *)
(***************************************************************************)
EXTENDS Integers, Sequences, FiniteSets, TLC

\* ------------------------------------------------------------- bounds
MaxReqs == 2        \* requests that arrive in one run

\* ------------------------------------------------- program constants
IDLE_LIMIT == 3600000
READY_TIMEOUT == 5000

\* ------------------------------------------------------ input domains
Reqs == 1..MaxReqs
Keys == {"s1", "s2"}
SessionIds == Keys \cup {""}          \* "" : sessionId missing from the request
\* The bodies of the POST /api/config requests: "" is a missing field, and
\* clientId "null" is clientId || null of a request that names none. The
\* session "s1" is configured with an application id, "s2" without one.
ConfigBodies ==
    {[token |-> "tok", clientId |-> "app", sessionId |-> "s1"],
     [token |-> "tok", clientId |-> "null", sessionId |-> "s2"],
     [token |-> "", clientId |-> "app", sessionId |-> "s1"],
     [token |-> "tok", clientId |-> "app", sessionId |-> ""]}
Deltas == {READY_TIMEOUT, IDLE_LIMIT}

VARIABLES
    sessions,      \* the Map, as its insertion-ordered sequence of entries
    now,           \* Date.now()
    pc,            \* per request: where its handler is suspended
    kind,          \* per request: which endpoint it called
    sessionId,     \* per request: req.body.sessionId / req.query.sessionId
    clientId,      \* per config request: req.body.clientId || null
    oldSession,    \* per config request: the record read at line 43
    session,       \* per disconnect request: the record read at line 108
    res,           \* per request: the response sent
    destroyCalls,  \* per client: number of destroy() calls made on it
    user,          \* per client: client.user is set
    ready,         \* per client: client.isReady()
    listeners,     \* per client: the handlers registered on it
    timers,        \* pending setTimeout callbacks of the bounded wait
    promise        \* per config request: state of the bounded-wait promise

reqvars == <<pc, kind, sessionId, clientId, oldSession, session, res>>
clientvars == <<destroyCalls, user, ready, listeners>>
vars == <<sessions, now, pc, kind, sessionId, clientId,
          oldSession, session, res, destroyCalls, user, ready, listeners,
          timers, promise>>

\* ------------------------------------------------------------ the Map
\* What sessions.get returns for an absent key (undefined); client 0 is no client.
Undefined == [client |-> 0, clientId |-> "null", createdAt |-> 0]

Has(m, k) == \E i \in 1..Len(m) : m[i].key = k

Get(m, k) ==
    IF Has(m, k) THEN m[CHOOSE i \in 1..Len(m) : m[i].key = k].value
    ELSE Undefined

Set(m, k, v) ==
    IF Has(m, k)
    THEN [i \in 1..Len(m) |-> IF m[i].key = k THEN [key |-> k, value |-> v] ELSE m[i]]
    ELSE Append(m, [key |-> k, value |-> v])

IsNotKey(e, k) == e.key # k

\* Mutant: deleting one key clears the Map.
DeleteAll(m, k) == <<>>

Delete(m, k) == SelectSeq(m, LAMBDA e : IsNotKey(e, k))

\* ------------------------------------------------------- the requests
Resp(status, ok, botTag, online) ==
    [status |-> status, ok |-> ok, botTag |-> botTag, online |-> online]

NoRes == Resp(0, FALSE, FALSE, FALSE)

\* Requests arrive one at a time and are numbered in arrival order.
CanStart(r) ==
    /\ pc[r] = "idle"
    /\ \A q \in Reqs : q < r => pc[q] # "idle"

\* The handlers treat every sessionId alike, so the keys are named in the order
\* of their first use: "s2" is the second key that requests name.
InOrder(sid) == sid = "s2" => \E q \in Reqs : sessionId[q] = "s1"

\* The request's endpoint and sessionId.
Arrive(r, k, sid) ==
    /\ kind' = [kind EXCEPT ![r] = k]
    /\ sessionId' = [sessionId EXCEPT ![r] = sid]

\* The response is sent and the handler returns: its locals are gone.
Respond(r, status, ok, botTag, online) ==
    /\ res' = [res EXCEPT ![r] = Resp(status, ok, botTag, online)]
    /\ pc' = [pc EXCEPT ![r] = "done"]
    /\ clientId' = [clientId EXCEPT ![r] = "null"]
    /\ oldSession' = [oldSession EXCEPT ![r] = Undefined]
    /\ session' = [session EXCEPT ![r] = Undefined]

\* A request rejected for a missing field: 400, nothing else of it is used.
Reject(r, k) ==
    /\ Arrive(r, k, "")
    /\ Respond(r, 400, FALSE, FALSE, FALSE)

Init ==
    /\ sessions = <<>>
    /\ now = 0
    /\ pc = [r \in Reqs |-> "idle"]
    /\ kind = [r \in Reqs |-> "none"]
    /\ sessionId = [r \in Reqs |-> ""]
    /\ clientId = [r \in Reqs |-> "null"]
    /\ oldSession = [r \in Reqs |-> Undefined]
    /\ session = [r \in Reqs |-> Undefined]
    /\ res = [r \in Reqs |-> NoRes]
    /\ destroyCalls = [c \in Reqs |-> 0]
    /\ user = [c \in Reqs |-> FALSE]
    /\ ready = [c \in Reqs |-> FALSE]
    /\ listeners = [c \in Reqs |-> {}]
    /\ timers = {}
    /\ promise = [r \in Reqs |-> "none"]

\* ------------------------------------------------ POST /api/config
\* client.destroy() was called on c.
Destroyed(d, c) == [d EXCEPT ![c] = @ + 1]

\* A destroyed client no longer reports isReady().
NotReady(rd, c) == [rd EXCEPT ![c] = FALSE]

\* Mutant: the handler never tears the old client down.
ReplacesOldNever(m, sid) == FALSE

\* if (sessions.has(sessionId)) { oldSession = sessions.get(sessionId); if (oldSession.client) ...
ReplacesOld(m, sid) == Has(m, sid) /\ Get(m, sid).client # 0

\* new Client(...); discordClient.once('ready', log); discordClient.login(token) is called.
ConstructAndLogin(r) ==
    /\ listeners' = [listeners EXCEPT ![r] = {"log"}]
    /\ pc' = [pc EXCEPT ![r] = "login"]

\* The record the handler stores.
Record(r) == [client |-> r, clientId |-> clientId[r], createdAt |-> now]

\* A disconnect request that arrived after request r has completed for r's key.
DisconnectedSince(r) ==
    \E d \in Reqs :
       /\ d > r
       /\ kind[d] = "disconnect"
       /\ sessionId[d] = sessionId[r]
       /\ pc[d] = "done"
       /\ res[d].status = 200

\* Mutant: the result of a handshake is discarded when its key was disconnected
\* in the meantime.
InstallUnlessDisconnected(r, hasUser) ==
    /\ sessions' = IF DisconnectedSince(r) THEN sessions
                   ELSE Set(sessions, sessionId[r], Record(r))
    /\ Respond(r, 200, TRUE, hasUser, FALSE)

\* sessions.set(sessionId, {...}); return res.json({ ok: true, ..., botTag }).
Install(r, hasUser) ==
    /\ sessions' = Set(sessions, sessionId[r], Record(r))
    /\ Respond(r, 200, TRUE, hasUser, FALSE)

\* The handler from the arrival of the request to its first await (or its 400).
ConfigStart(r, body) ==
    /\ CanStart(r)
    /\ InOrder(body.sessionId)
    /\ IF body.token = "" \/ body.sessionId = ""
       THEN /\ Reject(r, "config")
            /\ UNCHANGED <<destroyCalls, ready, listeners>>
       ELSE /\ Arrive(r, "config", body.sessionId)
            /\ clientId' = [clientId EXCEPT ![r] = body.clientId]
            /\ IF ReplacesOld(sessions, body.sessionId)
               THEN /\ oldSession' = [oldSession EXCEPT ![r] = Get(sessions, body.sessionId)]
                    /\ destroyCalls' =
                          Destroyed(destroyCalls, Get(sessions, body.sessionId).client)
                    /\ ready' = NotReady(ready, Get(sessions, body.sessionId).client)
                    /\ pc' = [pc EXCEPT ![r] = "destroying"]
                    /\ UNCHANGED <<listeners, res, session>>
               ELSE /\ ConstructAndLogin(r)
                    /\ UNCHANGED <<oldSession, destroyCalls, ready, res, session>>
    /\ UNCHANGED <<sessions, now, user, timers, promise>>

\* await oldSession.client.destroy() settles, resolved (ok) or rejected; the
\* rejection is caught at line 45 and ignored, so either way the handler
\* resumes at the construction of the new client.
ConfigDestroySettle(r, ok) ==
    /\ kind[r] = "config"
    /\ pc[r] = "destroying"
    /\ IF ok THEN ConstructAndLogin(r) ELSE ConstructAndLogin(r)
    /\ UNCHANGED <<sessions, now, kind, sessionId, clientId, oldSession, session,
                   res, destroyCalls, user, ready, timers, promise>>

\* Mutant: the catch block responds without removing the key.
ConfigFailKeepsRecord(r) ==
    /\ UNCHANGED sessions
    /\ Respond(r, 500, FALSE, FALSE, FALSE)

\* catch (e) { sessions.delete(sessionId); ... res.status(500) }
ConfigFail(r) ==
    /\ sessions' = Delete(sessions, sessionId[r])
    /\ Respond(r, 500, FALSE, FALSE, FALSE)

\* The bounded wait is entered: onReady, onErr registered, the timer set.
EnterWait(r) ==
    /\ listeners' = [listeners EXCEPT ![r] = @ \cup {"onReady", "onErr"}]
    /\ timers' = timers \cup {[req |-> r, at |-> now + READY_TIMEOUT]}
    /\ promise' = [promise EXCEPT ![r] = "pending"]
    /\ pc' = [pc EXCEPT ![r] = "wait"]

\* await discordClient.login(token) settles: rejected (ok = FALSE: invalid token,
\* network failure) or resolved, as the platform decides.
LoginSettle(r, ok) ==
    /\ kind[r] = "config"
    /\ pc[r] = "login"
    /\ user[r] => ok
    /\ IF ~ok
       THEN /\ ConfigFail(r)
            /\ UNCHANGED <<listeners, timers, promise>>
       ELSE IF user[r]
            THEN /\ Install(r, user[r])
                 /\ UNCHANGED <<listeners, timers, promise>>
            ELSE /\ EnterWait(r)
                 /\ UNCHANGED <<sessions, res, clientId, oldSession, session>>
    /\ UNCHANGED <<now, kind, sessionId, destroyCalls, user, ready>>

\* Mutant: cleanup removes the ready observer only.
CleanupReadyOnly(ls) == ls \ {"onReady"}

\* cleanup(): removeListener('ready', onReady); removeListener('error', onErr).
Cleanup(ls) == ls \ {"onReady", "onErr"}

\* The client of request c has called login, and login has not failed.
Connected(c) ==
    /\ kind[c] = "config"
    /\ \/ pc[c] \in {"login", "wait"}
       \/ pc[c] = "done" /\ res[c].status = 200

\* The client emits 'ready': user is set, isReady() turns true, the once('ready')
\* log observer runs and is removed, and onReady (if registered) cleans up and
\* resolves the wait, which resumes the handler at sessions.set.
ClientReady(c) ==
    /\ Connected(c)
    /\ ~user[c]
    /\ destroyCalls[c] = 0
    /\ user' = [user EXCEPT ![c] = TRUE]
    /\ ready' = [ready EXCEPT ![c] = TRUE]
    /\ listeners' = [listeners EXCEPT ![c] =
            IF "onReady" \in @ THEN Cleanup(@ \ {"log"}) ELSE @ \ {"log"}]
    /\ IF pc[c] = "wait"
       THEN /\ promise' = [promise EXCEPT ![c] = "fulfilled"]
            /\ Install(c, TRUE)
       ELSE UNCHANGED <<promise, sessions, res, pc, clientId, oldSession, session>>
    /\ UNCHANGED <<now, kind, sessionId, destroyCalls, timers>>

\* Mutant: the rejection of the wait is not caught at line 74 and reaches the
\* handler's outer catch.
ClientErrorFails(c) ==
    /\ kind[c] = "config"
    /\ pc[c] = "wait"
    /\ "onErr" \in listeners[c]
    /\ listeners' = [listeners EXCEPT ![c] = Cleanup(@)]
    /\ promise' = [promise EXCEPT ![c] = "rejected"]
    /\ ConfigFail(c)
    /\ UNCHANGED <<now, kind, sessionId, destroyCalls, user, ready, timers>>

\* The client emits 'error' while onErr is registered: cleanup, reject(err). The
\* rejection is caught at line 74 and logged; the handler goes on to sessions.set.
ClientError(c) ==
    /\ kind[c] = "config"
    /\ pc[c] = "wait"
    /\ "onErr" \in listeners[c]
    /\ listeners' = [listeners EXCEPT ![c] = Cleanup(@)]
    /\ promise' = [promise EXCEPT ![c] = "rejected"]
    /\ Install(c, user[c])
    /\ UNCHANGED <<now, kind, sessionId, destroyCalls, user, ready, timers>>

\* Mutant: the timer callback rejects the wait and the handler fails.
TimerFireFails(t) ==
    /\ t \in timers
    /\ now >= t.at
    /\ timers' = timers \ {t}
    /\ listeners' = [listeners EXCEPT ![t.req] = Cleanup(@)]
    /\ IF pc[t.req] = "wait"
       THEN /\ promise' = [promise EXCEPT ![t.req] = "rejected"]
            /\ ConfigFail(t.req)
       ELSE UNCHANGED <<promise, sessions, res, pc, clientId, oldSession, session>>
    /\ UNCHANGED <<now, kind, sessionId, destroyCalls, user, ready>>

\* Mutant: the timer callback deregisters the observers but does not resolve.
TimerFireCleansUpOnly(t) ==
    /\ t \in timers
    /\ now >= t.at
    /\ timers' = timers \ {t}
    /\ listeners' = [listeners EXCEPT ![t.req] = Cleanup(@)]
    /\ UNCHANGED <<promise, sessions, res, pc, clientId, oldSession, session>>
    /\ UNCHANGED <<now, kind, sessionId, destroyCalls, user, ready>>

\* The 5000 ms timer fires: cleanup(); resolve(). The timer is never cleared, so
\* it also fires after ready or error settled the promise, and then resolve()
\* does nothing.
TimerFire(t) ==
    /\ t \in timers
    /\ now >= t.at
    /\ timers' = timers \ {t}
    /\ listeners' = [listeners EXCEPT ![t.req] = Cleanup(@)]
    /\ IF pc[t.req] = "wait"
       THEN /\ promise' = [promise EXCEPT ![t.req] = "fulfilled"]
            /\ Install(t.req, user[t.req])
       ELSE UNCHANGED <<promise, sessions, res, pc, clientId, oldSession, session>>
    /\ UNCHANGED <<now, kind, sessionId, destroyCalls, user, ready>>

\* ------------------------------------------------ POST /api/disconnect
\* Mutant: a disconnect of an absent session is refused.
DisconnectAbsentRefused(r, sid) ==
    /\ Arrive(r, "disconnect", sid)
    /\ Respond(r, 400, FALSE, FALSE, FALSE)

\* if (!sessions.has(sessionId)) return res.json({ ok: true, message: ... })
DisconnectAbsent(r, sid) ==
    /\ Arrive(r, "disconnect", sid)
    /\ Respond(r, 200, TRUE, FALSE, FALSE)

\* From the arrival of the request to await session.client.destroy() (or a response).
DisconnectStart(r, sid) ==
    /\ CanStart(r)
    /\ InOrder(sid)
    /\ IF sid = ""
       THEN /\ Reject(r, "disconnect")
            /\ UNCHANGED <<destroyCalls, ready>>
       ELSE IF ~Has(sessions, sid)
            THEN /\ DisconnectAbsent(r, sid)
                 /\ UNCHANGED <<destroyCalls, ready>>
            ELSE /\ Arrive(r, "disconnect", sid)
                 /\ session' = [session EXCEPT ![r] = Get(sessions, sid)]
                 /\ IF Get(sessions, sid).client # 0
                    THEN /\ destroyCalls' = Destroyed(destroyCalls, Get(sessions, sid).client)
                         /\ ready' = NotReady(ready, Get(sessions, sid).client)
                    ELSE UNCHANGED <<destroyCalls, ready>>
                 /\ pc' = [pc EXCEPT ![r] = "destroying"]
                 /\ UNCHANGED <<res, clientId, oldSession>>
    /\ UNCHANGED <<sessions, now, user, listeners, timers, promise>>

\* Mutant: a rejected destroy is not caught: the record stays and the request fails.
DisconnectDestroyFailureSurfaces(r, ok) ==
    /\ kind[r] = "disconnect"
    /\ pc[r] = "destroying"
    /\ IF ok
       THEN /\ sessions' = Delete(sessions, sessionId[r])
            /\ Respond(r, 200, TRUE, FALSE, FALSE)
       ELSE /\ UNCHANGED sessions
            /\ Respond(r, 500, FALSE, FALSE, FALSE)
    /\ UNCHANGED <<now, kind, sessionId, destroyCalls, user, ready, listeners,
                   timers, promise>>

\* await session.client.destroy() settles: resolved (ok, line 112 logs) or
\* rejected (line 114 logs); then sessions.delete(sessionId); { ok: true }.
DisconnectDestroySettle(r, ok) ==
    /\ kind[r] = "disconnect"
    /\ pc[r] = "destroying"
    /\ IF ok
       THEN /\ sessions' = Delete(sessions, sessionId[r])
            /\ Respond(r, 200, TRUE, FALSE, FALSE)
       ELSE /\ sessions' = Delete(sessions, sessionId[r])
            /\ Respond(r, 200, TRUE, FALSE, FALSE)
    /\ UNCHANGED <<now, kind, sessionId, destroyCalls, user, ready, listeners,
                   timers, promise>>

\* ------------------------------------------------ GET /api/status
\* Mutant: a session counts as online as soon as it has a record.
OnlineIfPresent(m, rd, sid) == Has(m, sid)

\* !!(session && session.client && session.client.isReady())
Online(m, rd, sid) == Has(m, sid) /\ Get(m, sid).client # 0 /\ rd[Get(m, sid).client]

Status(r, sid) ==
    /\ CanStart(r)
    /\ InOrder(sid)
    /\ IF sid = ""
       THEN Reject(r, "status")
       ELSE /\ Arrive(r, "status", sid)
            /\ Respond(r, 200, FALSE, FALSE, Online(sessions, ready, sid))
    /\ UNCHANGED <<sessions, now, destroyCalls, user, ready, listeners, timers, promise>>

\* ------------------------------------------------ GET /api/guilds
\* Mutant: a query that finds the client not ready drops the record.
GuildsEvictsStale(r, sid) ==
    /\ CanStart(r)
    /\ InOrder(sid)
    /\ IF sid = ""
       THEN Reject(r, "guilds") /\ UNCHANGED sessions
       ELSE /\ Arrive(r, "guilds", sid)
            /\ IF Online(sessions, ready, sid)
               THEN Respond(r, 200, TRUE, FALSE, FALSE) /\ UNCHANGED sessions
               ELSE /\ Respond(r, 400, FALSE, FALSE, FALSE)
                    /\ sessions' = Delete(sessions, sid)
    /\ UNCHANGED <<now, destroyCalls, user, ready, listeners, timers, promise>>

\* if (!session || !session.client || !session.client.isReady()) 400;
\* else the guilds of the client's cache.
Guilds(r, sid) ==
    /\ CanStart(r)
    /\ InOrder(sid)
    /\ IF sid = ""
       THEN Reject(r, "guilds")
       ELSE /\ Arrive(r, "guilds", sid)
            /\ IF Online(sessions, ready, sid)
               THEN Respond(r, 200, TRUE, FALSE, FALSE)
               ELSE Respond(r, 400, FALSE, FALSE, FALSE)
    /\ UNCHANGED <<sessions, now, destroyCalls, user, ready, listeners, timers, promise>>

\* ------------------------------------------------ GET /api/channels/:guildId
\* found: the client's guild cache holds req.params.guildId.
Channels(r, sid, found) ==
    /\ CanStart(r)
    /\ InOrder(sid)
    /\ IF sid = ""
       THEN Reject(r, "channels")
       ELSE /\ Arrive(r, "channels", sid)
            /\ IF ~Online(sessions, ready, sid)
               THEN Respond(r, 400, FALSE, FALSE, FALSE)
               ELSE IF ~found
                    THEN Respond(r, 404, FALSE, FALSE, FALSE)
                    ELSE Respond(r, 200, TRUE, FALSE, FALSE)
    /\ UNCHANGED <<sessions, now, destroyCalls, user, ready, listeners, timers, promise>>

\* ------------------------------------------------ GET /api/invite
\* if (!session || !session.clientId) 400; else the invite link.
Invite(r, sid) ==
    /\ CanStart(r)
    /\ InOrder(sid)
    /\ IF sid = ""
       THEN Reject(r, "invite")
       ELSE /\ Arrive(r, "invite", sid)
            /\ IF Has(sessions, sid) /\ Get(sessions, sid).clientId # "null"
               THEN Respond(r, 200, TRUE, FALSE, FALSE)
               ELSE Respond(r, 400, FALSE, FALSE, FALSE)
    /\ UNCHANGED <<sessions, now, destroyCalls, user, ready, listeners, timers, promise>>

\* ------------------------------------------------ POST /api/send
\* The outcomes of await session.client.channels.fetch(channelId): the call
\* rejects, or resolves to no channel, to a channel without send, or to a
\* channel that can send.
FetchOutcomes == {"rejected", "none", "nosend", "channel"}

\* From the arrival of the request to await channels.fetch (or a 400); full:
\* the body holds both channelId and message.
SendStart(r, sid, full) ==
    /\ CanStart(r)
    /\ InOrder(sid)
    /\ IF sid = ""
       THEN Reject(r, "send")
       ELSE /\ Arrive(r, "send", sid)
            /\ IF ~Online(sessions, ready, sid) \/ ~full
               THEN Respond(r, 400, FALSE, FALSE, FALSE)
               ELSE /\ session' = [session EXCEPT ![r] = Get(sessions, sid)]
                    /\ pc' = [pc EXCEPT ![r] = "fetch"]
                    /\ UNCHANGED <<res, clientId, oldSession>>
    /\ UNCHANGED <<sessions, now, destroyCalls, user, ready, listeners, timers, promise>>

\* await channels.fetch settles; with a channel that can send, channel.send is
\* called: the message is dispatched through the client read at line 171.
SendFetchSettle(r, out) ==
    /\ kind[r] = "send"
    /\ pc[r] = "fetch"
    /\ IF out = "channel"
       THEN /\ pc' = [pc EXCEPT ![r] = "sending"]
            /\ UNCHANGED <<res, clientId, oldSession, session>>
       ELSE IF out = "none"
            THEN Respond(r, 404, FALSE, FALSE, FALSE)
            ELSE IF out = "nosend"
                 THEN Respond(r, 400, FALSE, FALSE, FALSE)
                 ELSE Respond(r, 500, FALSE, FALSE, FALSE)
    /\ UNCHANGED <<sessions, now, kind, sessionId, destroyCalls, user, ready,
                   listeners, timers, promise>>

\* await channel.send settles: { ok: true, id } or the catch's 500.
SendSendSettle(r, ok) ==
    /\ kind[r] = "send"
    /\ pc[r] = "sending"
    /\ IF ok
       THEN Respond(r, 200, TRUE, FALSE, FALSE)
       ELSE Respond(r, 500, FALSE, FALSE, FALSE)
    /\ UNCHANGED <<sessions, now, kind, sessionId, destroyCalls, user, ready,
                   listeners, timers, promise>>

\* ------------------------------------------------ the expiry sweep
\* Mutant: a record expires on reaching the limit.
ExpiredAtLimit(t, rec) == t - rec.createdAt >= IDLE_LIMIT

\* if (now - session.createdAt > 3600000)
Expired(t, rec) == t - rec.createdAt > IDLE_LIMIT

\* One iteration of the for-of loop over sessions.entries().
SweepEntry(st, e, t) ==
    IF Expired(t, e.value)
    THEN [sessions |-> Delete(st.sessions, e.key),
          destroyCalls |-> IF e.value.client # 0
                           THEN Destroyed(st.destroyCalls, e.value.client)
                           ELSE st.destroyCalls,
          ready |-> IF e.value.client # 0
                    THEN NotReady(st.ready, e.value.client)
                    ELSE st.ready]
    ELSE st

\* The loop, in the Map's iteration (insertion) order; entries deleted during
\* the iteration are the visited ones, so the entries still to visit are those
\* of the Map as it was when the loop began.
RECURSIVE SweepFrom(_, _, _, _)
SweepFrom(entries, i, st, t) ==
    IF i > Len(entries) THEN st
    ELSE SweepFrom(entries, i + 1, SweepEntry(st, entries[i], t), t)

\* What one run of the loop at time t over the entries m leaves behind.
SweepResult(m, t) ==
    SweepFrom(m, 1, [sessions |-> sessions, destroyCalls |-> destroyCalls, ready |-> ready], t)

\* The setInterval callback. It is due every 300000 ms from a start the model
\* does not fix, so it may run at any reading of the clock.
Sweep ==
    /\ sessions' = SweepResult(sessions, now).sessions
    /\ destroyCalls' = SweepResult(sessions, now).destroyCalls
    /\ ready' = SweepResult(sessions, now).ready
    /\ UNCHANGED <<now, reqvars, user, listeners, timers, promise>>

\* ------------------------------------------------ the clock
\* Date.now() advances: by the wait's timeout while a timer is not yet due,
\* by the idle limit while the registry holds a record that has not yet expired
\* and no request is suspended (an awaited destroy or login settles, and the
\* wait times out, well within the hour). Time that passes otherwise changes
\* nothing the handlers compare, so the clock is bounded by the requests made.
Tick(d) ==
    /\ d = READY_TIMEOUT => \E t \in timers : t.at > now /\ pc[t.req] = "wait"
    /\ d = IDLE_LIMIT =>
          /\ \E i \in 1..Len(sessions) : now - sessions[i].value.createdAt < IDLE_LIMIT
          /\ \A r \in Reqs : pc[r] \in {"idle", "done"}
    /\ now' = now + d
    /\ UNCHANGED <<sessions, reqvars, clientvars, timers, promise>>

\* One more millisecond on a clock that stands where a record has reached the
\* idle limit exactly: the record is then past the limit, and stays in the
\* registry until the next run of the sweep (up to 300000 ms later).
TickPastLimit ==
    /\ \E i \in 1..Len(sessions) : now - sessions[i].value.createdAt = IDLE_LIMIT
    /\ \A r \in Reqs : pc[r] \in {"idle", "done"}
    /\ now' = now + 1
    /\ UNCHANGED <<sessions, reqvars, clientvars, timers, promise>>

\* ------------------------------------------------ the specifications
Next ==
    \/ \E r \in Reqs, body \in ConfigBodies : ConfigStart(r, body)
    \/ \E r \in Reqs, ok \in BOOLEAN : ConfigDestroySettle(r, ok)
    \/ \E r \in Reqs, ok \in BOOLEAN : LoginSettle(r, ok)
    \/ \E c \in Reqs : ClientReady(c)
    \/ \E c \in Reqs : ClientError(c)
    \/ \E t \in timers : TimerFire(t)
    \/ \E r \in Reqs, sid \in SessionIds : DisconnectStart(r, sid)
    \/ \E r \in Reqs, ok \in BOOLEAN : DisconnectDestroySettle(r, ok)
    \/ \E r \in Reqs, sid \in SessionIds : Status(r, sid)
    \/ Sweep
    \/ \E d \in Deltas : Tick(d)

Spec == Init /\ [][Next]_vars

\* No request is suspended at an await.
Quiet == \A r \in Reqs : pc[r] \in {"idle", "done"}

\* The same handlers with the operations run one after another: a request
\* arrives, and the sweep runs, only while no request is suspended.
NextSeq ==
    \/ /\ Quiet
       /\ \/ \E r \in Reqs, body \in ConfigBodies : ConfigStart(r, body)
          \/ \E r \in Reqs, sid \in SessionIds : DisconnectStart(r, sid)
          \/ \E r \in Reqs, sid \in SessionIds : Status(r, sid)
          \/ Sweep
    \/ \E r \in Reqs, ok \in BOOLEAN : ConfigDestroySettle(r, ok)
    \/ \E r \in Reqs, ok \in BOOLEAN : LoginSettle(r, ok)
    \/ \E c \in Reqs : ClientReady(c)
    \/ \E c \in Reqs : ClientError(c)
    \/ \E t \in timers : TimerFire(t)
    \/ \E r \in Reqs, ok \in BOOLEAN : DisconnectDestroySettle(r, ok)
    \/ \E d \in Deltas : Tick(d)

SpecSeq == Init /\ [][NextSeq]_vars

\* The server with its timers: time passes while a wait's timer is pending,
\* and a timer that is due fires (the event loop runs due setTimeout callbacks).
\* Nothing is assumed of the client's ready and error events, of the settling
\* of login and destroy, or of the arrival of requests.
Fairness ==
    /\ WF_vars(Tick(READY_TIMEOUT))
    /\ WF_vars(\E t \in timers : TimerFire(t))

SpecLive == Init /\ [][Next]_vars /\ Fairness

\* The whole server: the handlers above together with the endpoints that only
\* read the registry.
NextAll ==
    \/ Next
    \/ \E r \in Reqs, sid \in SessionIds : Guilds(r, sid)
    \/ \E r \in Reqs, sid \in SessionIds, found \in BOOLEAN : Channels(r, sid, found)
    \/ \E r \in Reqs, sid \in SessionIds : Invite(r, sid)
    \/ \E r \in Reqs, sid \in SessionIds, full \in BOOLEAN : SendStart(r, sid, full)
    \/ \E r \in Reqs, out \in FetchOutcomes : SendFetchSettle(r, out)
    \/ \E r \in Reqs, ok \in BOOLEAN : SendSendSettle(r, ok)

SpecAll == Init /\ [][NextAll]_vars

\* The whole server on a clock that can also leave a record past the idle
\* limit before the sweep's next run, so that a request can meet such a record.
NextAged ==
    \/ NextAll
    \/ TickPastLimit

SpecAged == Init /\ [][NextAged]_vars

\* ------------------------------------------------ the properties
\* Request r is a configuration request that installs its record in this step.
ConfigInstalls(r) ==
    /\ kind[r] = "config"
    /\ pc[r] \in {"login", "wait"}
    /\ pc'[r] = "done"
    /\ res'[r].status = 200

LoginFails(r) ==
    /\ kind[r] = "config"
    /\ pc[r] = "login"
    /\ pc'[r] = "done"
    /\ ~user[r]

\* C2: when login fails, the configuration request responds 500 and, as it
\* responds, the registry holds no record for its key, whether or not one
\* existed before; a status query for the key then reports online:false.
C2_LoginFailureLeavesNoRecord ==
    [][\A r \in Reqs :
          LoginFails(r) =>
             /\ res'[r].status = 500
             /\ ~res'[r].ok
             /\ ~Has(sessions', sessionId[r])
             /\ ~Online(sessions', ready', sessionId[r])]_vars

C2_Witness ==
    \E a, b \in Reqs :
       /\ a < b
       /\ kind[a] = "config" /\ kind[b] = "config"
       /\ sessionId[a] = sessionId[b]
       /\ res[a].status = 200 /\ res[b].status = 500
       /\ destroyCalls[a] = 1
       /\ ~Has(sessions, sessionId[b])

\* The error observer of request c fires in this step, during its bounded wait.
ErrorFires(c) ==
    /\ kind[c] = "config"
    /\ pc[c] = "wait"
    /\ promise'[c] = "rejected"

\* C3 as claimed: when the error observer fires during the bounded wait, the
\* configuration request responds with failure and installs no record.
C3_ErrorObserverFailsRequest ==
    [][\A c \in Reqs :
          ErrorFires(c) =>
             /\ res'[c].status = 500
             /\ Get(sessions', sessionId[c]).client # c]_vars

\* C3 as amended: when the error observer fires during the bounded wait, the
\* error is only logged: the request responds 200 with ok:true and installs
\* the record holding its client, exactly as after a timeout.
C3_ErrorObserverIsLoggedOnly ==
    [][\A c \in Reqs :
          ErrorFires(c) =>
             /\ res'[c].status = 200
             /\ res'[c].ok
             /\ Get(sessions', sessionId[c]) =
                   [client |-> c, clientId |-> clientId[c], createdAt |-> now]]_vars

C3_Witness ==
    \E c \in Reqs :
       /\ promise[c] = "rejected"
       /\ res[c].status = 200
       /\ Get(sessions, sessionId[c]).client = c

\* The timer of request r fires in this step while r is still in its wait.
TimesOut(r) ==
    /\ kind[r] = "config"
    /\ pc[r] = "wait"
    /\ \E t \in timers : t.req = r /\ t \notin timers'

\* Request q is a status query answered in this step.
StatusAnswers(q) ==
    /\ pc[q] = "idle"
    /\ kind'[q] = "status"
    /\ res'[q].status = 200

\* C4: when login succeeds and neither ready nor error fires before the
\* 5000 ms timeout, the request responds 200 with ok:true no sooner than
\* 5000 ms after the wait began and stores its not-yet-ready client in the
\* record of the key; a status query for a key reports the readiness that the
\* stored client has at the moment of the query.
C4_TimeoutStoresUnreadyClient ==
    [][/\ \A r \in Reqs :
             TimesOut(r) =>
                /\ res'[r].status = 200
                /\ res'[r].ok
                /\ ~res'[r].botTag
                /\ Get(sessions', sessionId[r]).client = r
                /\ ~ready'[r]
                /\ \A t \in timers : t.req = r => now >= t.at
       /\ \A q \in Reqs :
             (StatusAnswers(q) /\ Has(sessions, sessionId'[q])) =>
                res'[q].online = ready[Get(sessions, sessionId'[q]).client]]_vars

C4_Witness ==
    \E r, q \in Reqs :
       /\ kind[r] = "config"
       /\ promise[r] = "fulfilled"
       /\ res[r].status = 200 /\ ~res[r].botTag
       /\ Get(sessions, sessionId[r]).client = r
       /\ kind[q] = "status"
       /\ sessionId[q] = sessionId[r]
       /\ res[q].status = 200 /\ res[q].online
       /\ ready[r]

\* The entries of a Map, without their order.
Entries(m) == {m[i] : i \in 1..Len(m)}

Reverse(m) == [i \in 1..Len(m) |-> m[Len(m) + 1 - i]]

\* C5: one sweep run at time now deletes exactly the records with
\* now - createdAt > 3600000 (a record aged exactly 3600000 stays), calls
\* destroy once on the client of each deleted record and on no other client,
\* and leaves every other record as it was; the Map's iteration order makes
\* no difference.
C5_SweepDeletesExactlyExpired ==
    LET st == SweepResult(sessions, now)
        rv == SweepResult(Reverse(sessions), now)
    IN /\ \A k \in Keys :
             IF Has(sessions, k) /\ now - Get(sessions, k).createdAt > IDLE_LIMIT
             THEN /\ ~Has(st.sessions, k)
                  /\ st.destroyCalls[Get(sessions, k).client] =
                        destroyCalls[Get(sessions, k).client] + 1
             ELSE /\ Has(st.sessions, k) = Has(sessions, k)
                  /\ Get(st.sessions, k) = Get(sessions, k)
       /\ \A c \in Reqs :
             (\A k \in Keys : Has(st.sessions, k) \/ Get(sessions, k).client # c) =>
                st.destroyCalls[c] = destroyCalls[c]
       /\ Entries(rv.sessions) = Entries(st.sessions)
       /\ rv.destroyCalls = st.destroyCalls

C5_Witness ==
    \E a, b \in Reqs :
       /\ kind[a] = "config" /\ kind[b] = "config"
       /\ res[a].status = 200 /\ res[b].status = 200
       /\ sessionId[a] # sessionId[b]
       /\ ~Has(sessions, sessionId[a])
       /\ destroyCalls[a] = 1
       /\ Get(sessions, sessionId[b]).client = b
       /\ now - Get(sessions, sessionId[b]).createdAt = IDLE_LIMIT
       /\ destroyCalls[b] = 0

\* Request r is a disconnect request that arrives in this step for a key that
\* has no record.
DisconnectsAbsent(r) ==
    /\ pc[r] = "idle"
    /\ kind'[r] = "disconnect"
    /\ sessionId'[r] \in Keys
    /\ ~Has(sessions, sessionId'[r])

\* C6: a disconnect request for a key that has no record responds 200 with
\* ok:true, requests no destroy and leaves the registry as it was, so that
\* repeating it gives the same.
C6_DisconnectAbsentIsNoOp ==
    [][\A r \in Reqs :
          DisconnectsAbsent(r) =>
             /\ pc'[r] = "done"
             /\ res'[r].status = 200
             /\ res'[r].ok
             /\ destroyCalls' = destroyCalls
             /\ sessions' = sessions]_vars

C6_Witness ==
    /\ \A r \in Reqs :
          /\ kind[r] = "disconnect"
          /\ sessionId[r] = "s1"
          /\ res[r].status = 200 /\ res[r].ok
    /\ sessions = <<>>
    /\ \A c \in Reqs : destroyCalls[c] = 0

\* C7 as claimed: each time a record is deleted from the registry, destroy has
\* been requested on the client that the deleted record held.
C7_DeletedRecordClientDestroyed ==
    [][\A k \in Keys :
          (Has(sessions, k) /\ ~Has(sessions', k)) =>
             destroyCalls'[Get(sessions, k).client] >= 1]_vars

\* A destroy call on client c is still awaited by some handler.
DestroyInFlight(c) ==
    \E r \in Reqs :
       /\ pc[r] = "destroying"
       /\ \/ kind[r] = "config" /\ oldSession[r].client = c
          \/ kind[r] = "disconnect" /\ session[r].client = c

\* C8 as claimed: a record present in the registry holds a client on which
\* destroy has not been requested, except while a destroy call on that client
\* is still in flight.
C8_PresentRecordClientAlive ==
    \A k \in Keys :
       Has(sessions, k) =>
          \/ destroyCalls[Get(sessions, k).client] = 0
          \/ DestroyInFlight(Get(sessions, k).client)

\* C9 as claimed: whenever the install of a new record overwrites a record
\* that holds a different client, destroy has already been requested on the
\* overwritten client.
C9_OverwrittenClientDestroyedFirst ==
    [][\A k \in Keys :
          (/\ Has(sessions, k)
           /\ Has(sessions', k)
           /\ Get(sessions', k).client # Get(sessions, k).client) =>
             destroyCalls[Get(sessions, k).client] >= 1]_vars

\* Request r is a configuration request between its lookup and its install,
\* and this step is not one of its own.
ConfigSuspended(r) ==
    /\ kind[r] = "config"
    /\ pc[r] \in {"destroying", "login", "wait"}
    /\ pc'[r] = pc[r]

\* C10 as claimed: between the lookup and the install of a configuration
\* request for key k, no other operation changes the record of k and no other
\* configuration request of k begins.
C10_ConfigCheckThenActAtomic ==
    [][\A r \in Reqs :
          ConfigSuspended(r) =>
             /\ Has(sessions', sessionId[r]) = Has(sessions, sessionId[r])
             /\ Get(sessions', sessionId[r]) = Get(sessions, sessionId[r])
             /\ \A q \in Reqs :
                   (pc[q] = "idle" /\ kind'[q] = "config") =>
                      sessionId'[q] # sessionId[r]]_vars

\* The destroy call that request r awaits settles in this step.
DestroySettles(r) ==
    /\ pc[r] = "destroying"
    /\ pc'[r] # "destroying"

\* C11: a failing destroy call changes no outcome. When the destroy awaited by
\* a replacing configuration settles, resolved or rejected alike, the request
\* goes on to construct and log in its new client with the registry untouched
\* and no response sent; when the destroy awaited by a disconnect settles,
\* either way, the record is deleted and the response is 200 ok:true; and the
\* sweep deletes a record in the very step in which it calls destroy on its
\* client, before that call can have failed.
C11_DestroyFailureChangesNothing ==
    [][/\ \A r \in Reqs :
             /\ ConfigDestroySettle(r, TRUE) <=> ConfigDestroySettle(r, FALSE)
             /\ DisconnectDestroySettle(r, TRUE) <=> DisconnectDestroySettle(r, FALSE)
             /\ (DestroySettles(r) /\ kind[r] = "config") =>
                   /\ pc'[r] = "login"
                   /\ res'[r] = NoRes
                   /\ sessions' = sessions
             /\ (DestroySettles(r) /\ kind[r] = "disconnect") =>
                   /\ ~Has(sessions', sessionId[r])
                   /\ res'[r].status = 200
                   /\ res'[r].ok
       /\ \A k \in Keys :
             (/\ pc' = pc
              /\ Has(sessions, k)
              /\ destroyCalls'[Get(sessions, k).client] >
                    destroyCalls[Get(sessions, k).client]) =>
                ~Has(sessions', k)]_vars

C11_Witness ==
    \E a, b \in Reqs :
       /\ kind[a] = "config" /\ res[a].status = 200
       /\ kind[b] = "disconnect" /\ res[b].status = 200 /\ res[b].ok
       /\ sessionId[a] = sessionId[b]
       /\ destroyCalls[a] = 1
       /\ ~Has(sessions, sessionId[a])

\* Request r, one of the read-only endpoints, takes a step.
QuerySteps(r) ==
    /\ pc'[r] # pc[r]
    /\ kind'[r] \in {"status", "guilds", "channels", "send", "invite"}

\* Request r is rejected in this step for a missing required field.
RejectedForMissingField(r) ==
    /\ pc[r] = "idle"
    /\ pc'[r] = "done"
    /\ sessionId'[r] = ""
    /\ res'[r].status = 400

\* C12: status, guilds, channels, send and invite, and every request rejected
\* for a missing required field, leave the registry as it was (same keys, same
\* client, applicationId and createdAt in each record), construct no client
\* and call destroy on none.
C12_QueriesLeaveRegistryUnchanged ==
    [][\A r \in Reqs :
          (QuerySteps(r) \/ RejectedForMissingField(r)) =>
             /\ sessions' = sessions
             /\ destroyCalls' = destroyCalls
             /\ listeners' = listeners
             /\ user' = user
             /\ ready' = ready
             /\ pc'[r] # "login"]_vars

C12_Witness ==
    \E a, b \in Reqs :
       /\ kind[a] = "config" /\ res[a].status = 200
       /\ kind[b] = "guilds" /\ res[b].status = 400
       /\ sessionId[b] = sessionId[a]
       /\ Get(sessions, sessionId[a]).client = a
       /\ ~ready[a]
       /\ destroyCalls[a] = 0

\* The disconnect request d completes with success in this step.
DisconnectCompletes(d) ==
    /\ kind'[d] = "disconnect"
    /\ pc[d] # "done"
    /\ pc'[d] = "done"
    /\ res'[d].status = 200

\* The configuration request r is suspended in login or in the bounded wait.
ConfigPending(r) ==
    /\ kind[r] = "config"
    /\ pc[r] \in {"login", "wait"}

\* C13: a disconnect of key k that completes with success while a
\* configuration of k is pending in login or in the bounded wait leaves that
\* configuration pending, with its observers and timer in place; and when the
\* configuration finishes (other than by a failed login) after such a
\* disconnect, it installs its record: k has a record, holding its client,
\* although no configuration request came after the disconnect.
C13_PendingConfigSurvivesDisconnect ==
    [][\A r \in Reqs :
          /\ \A d \in Reqs :
                (/\ ConfigPending(r)
                 /\ DisconnectCompletes(d)
                 /\ sessionId'[d] = sessionId[r]) =>
                   /\ pc'[r] = pc[r]
                   /\ listeners'[r] = listeners[r]
                   /\ promise'[r] = promise[r]
                   /\ timers' = timers
          /\ (/\ ConfigPending(r)
              /\ pc'[r] = "done"
              /\ ~LoginFails(r)
              /\ DisconnectedSince(r)) =>
                /\ res'[r].status = 200
                /\ res'[r].ok
                /\ Has(sessions', sessionId[r])
                /\ Get(sessions', sessionId[r]).client = r]_vars

C13_Witness ==
    \E r, d \in Reqs :
       /\ r < d
       /\ kind[r] = "config" /\ res[r].status = 200
       /\ kind[d] = "disconnect" /\ res[d].status = 200
       /\ sessionId[d] = sessionId[r]
       /\ \A q \in Reqs : q > d => pc[q] = "idle"
       /\ Get(sessions, sessionId[r]).client = r

\* C14: the configuration endpoint does not hang. A configuration request
\* whose login has settled without a ready client is in its bounded wait, and
\* from there it eventually responds, even if the client fires neither ready
\* nor error (the timer ends the wait); and a response, once sent, is the only
\* one: it is never replaced.
C14_ConfigEventuallyRespondsOnce ==
    /\ \A r \in Reqs : (kind[r] = "config" /\ pc[r] = "wait") ~> (pc[r] = "done")
    /\ [][\A r \in Reqs :
             /\ pc[r] = "done" => pc'[r] = "done" /\ res'[r] = res[r]
             /\ pc'[r] = "done" => res'[r] # NoRes]_vars

C14_Witness ==
    \E r \in Reqs :
       /\ kind[r] = "config"
       /\ pc[r] = "done"
       /\ res[r].status = 200
       /\ promise[r] = "fulfilled"
       /\ ~user[r]
       /\ "log" \in listeners[r]
       /\ now = READY_TIMEOUT

\* The configuration request r has returned from its handshake with the
\* response of lines 86-91.
ConfigReturned(r) ==
    /\ kind[r] = "config"
    /\ pc[r] = "done"
    /\ res[r].status = 200

\* The wait of request r has completed.
WaitSettled(r) == promise[r] \in {"fulfilled", "rejected"}

\* C15 as claimed: when a configuration request has returned, every observer
\* that it registered on its client is deregistered, and its wait completes
\* at most once.
C15_AllObserversDeregisteredOnReturn ==
    [][\A r \in Reqs :
          /\ ConfigReturned(r)' => listeners'[r] = {}
          /\ WaitSettled(r) => promise'[r] = promise[r]]_vars

\* C15 as amended: when a configuration request has returned, the two
\* observers of its bounded wait (onReady, onErr) are deregistered, whichever
\* of ready, error or timeout ended the wait; the wait completes at most once
\* and the returned request does nothing more (a timer firing later changes
\* neither its response nor the registry); the one-time ready observer
\* registered before login (the log observer) is removed by nothing but the
\* client's first ready event, so after a timeout or an error it is still
\* registered.
C15_WaitObserversDeregisteredOnReturn ==
    [][\A r \in Reqs :
          /\ ConfigReturned(r)' => listeners'[r] \subseteq {"log"}
          /\ WaitSettled(r) => promise'[r] = promise[r]
          /\ ConfigReturned(r) =>
                /\ res'[r] = res[r]
                /\ (\E t \in timers : t.req = r /\ t \notin timers') =>
                      sessions' = sessions
          /\ ("log" \in listeners[r] /\ "log" \notin listeners'[r]) =>
                ~user[r] /\ user'[r]
          /\ (ConfigReturned(r)' /\ ~user'[r]) => "log" \in listeners'[r]]_vars

C15_Witness ==
    \E r \in Reqs :
       /\ ConfigReturned(r)
       /\ promise[r] = "rejected"
       /\ \A t \in timers : t.req # r
       /\ listeners[r] = {"log"}
       /\ Get(sessions, sessionId[r]).client = r

\* The key k has a record whose client reports ready.
RecordReady(k) ==
    \E i \in 1..Len(sessions) :
       /\ sessions[i].key = k
       /\ sessions[i].value.client # 0
       /\ ready[sessions[i].value.client]

\* Request q arrives in this step at the endpoint kd, naming a session.
ArrivesAt(q, kd) ==
    /\ pc[q] = "idle"
    /\ kind'[q] = kd
    /\ sessionId'[q] \in Keys

\* C16: a status query for key k answers online:true exactly when k has a
\* record whose client reports ready at that moment, and online:false
\* otherwise, also for a key without record; guilds, channels and send for k
\* are rejected with 400 whenever that condition is false.
C16_OnlineIffRecordReady ==
    [][\A q \in Reqs :
          /\ ArrivesAt(q, "status") =>
                /\ pc'[q] = "done"
                /\ res'[q].status = 200
                /\ res'[q].online = RecordReady(sessionId'[q])
          /\ \A kd \in {"guilds", "channels", "send"} :
                (ArrivesAt(q, kd) /\ ~RecordReady(sessionId'[q])) =>
                   /\ pc'[q] = "done"
                   /\ res'[q].status = 400
                   /\ ~res'[q].ok]_vars

C16_Witness ==
    \E a, b \in Reqs :
       /\ kind[a] = "config" /\ res[a].status = 200
       /\ Get(sessions, sessionId[a]).client = a
       /\ ~ready[a]
       /\ kind[b] = "channels"
       /\ sessionId[b] = sessionId[a]
       /\ a < b
       /\ res[b].status = 400

\* The handler of the configuration or disconnect request r takes a step.
MutatorSteps(r) ==
    /\ pc'[r] # pc[r]
    /\ kind'[r] \in {"config", "disconnect"}

\* The record of key k, or its client, is changed, deleted or torn down in
\* this step.
Touched(k) ==
    \/ Has(sessions', k) # Has(sessions, k)
    \/ Get(sessions', k) # Get(sessions, k)
    \/ /\ Has(sessions, k)
       /\ \/ destroyCalls'[Get(sessions, k).client] # destroyCalls[Get(sessions, k).client]
          \/ ready'[Get(sessions, k).client] # ready[Get(sessions, k).client]
          \/ listeners'[Get(sessions, k).client] # listeners[Get(sessions, k).client]

\* C17: a step of a configuration or disconnect request for key k leaves the
\* record and the client of every other key untouched, whatever requests on
\* the other key are in progress; a step that touches the records of two keys
\* is a step of the sweep, not of a request.
C17_OtherKeysUntouched ==
    [][/\ \A r \in Reqs : \A k2 \in Keys :
             (MutatorSteps(r) /\ k2 # sessionId'[r]) => ~Touched(k2)
       /\ (Touched("s1") /\ Touched("s2")) => pc' = pc]_vars

C17_Witness ==
    \E a, b \in Reqs :
       /\ kind[a] = "config" /\ res[a].status = 200
       /\ kind[b] = "config" /\ res[b].status = 500
       /\ sessionId[a] \in Keys /\ sessionId[b] \in Keys
       /\ sessionId[a] # sessionId[b]
       /\ Get(sessions, sessionId[a]).client = a
       /\ destroyCalls[a] = 0
       /\ ready[a]

\* The send request r calls channel.send in this step: its message is
\* dispatched through the client of the record it read on arrival.
Dispatches(r) ==
    /\ kind[r] = "send"
    /\ pc[r] = "fetch"
    /\ pc'[r] = "sending"

\* C18 as claimed: a send request never dispatches its message through a
\* client on which destroy has already been requested, also when the teardown
\* happens while the request is suspended in its channel fetch.
C18_NoDispatchThroughDestroyedClient ==
    [][\A r \in Reqs :
          Dispatches(r) => destroyCalls[session[r].client] = 0]_vars

\* C19 as claimed: in every interleaving of configuration, disconnect and
\* sweep, destroy is requested at most once on any one client.
C19_DestroyAtMostOncePerClient ==
    \A c \in Reqs : destroyCalls[c] <= 1

TypeOK ==
    /\ now \in Nat
    /\ \A r \in Reqs :
          pc[r] \in {"idle", "destroying", "login", "wait", "fetch", "sending", "done"}
    /\ \A i \in 1..Len(sessions) : sessions[i].key \in Keys
    /\ \A i, j \in 1..Len(sessions) : sessions[i].key = sessions[j].key => i = j
====
